---- MODULE Spec2Model ----
(***************************************************************************)
(* NeckRange AI: the capture / analyse / diagnose flow of App.tsx, the     *)
(* PoseAnalysis component that drives it, and the classifier thresholds.   *)
(*                                                                         *)
(* Angles are fixed-point numbers: one unit is 1/Scale of a degree, so     *)
(* 29.999 degrees is 29999 and 50.001 degrees is 50001.                    *)
(***************************************************************************)
EXTENDS Integers, Sequences, FiniteSets, Bags, TLC

VARIABLES
    appState,          \* App: 'intro' | 'capture' | 'analyze' | 'result'
    currentImageType,  \* App: ImageType being captured / analysed
    capturedImages,    \* App: CapturedImage[]
    error,             \* App: string | null
    diagnosisResult,   \* App: DiagnosisResult | null  (<<>> is null)
    instances,         \* mounted PoseAnalysis components, by React key
    runs,              \* analyzeImage invocations in flight (a bag)
    timers,            \* pending setTimeout callbacks of handleAnalysisError (a bag)
    nextUrl,           \* number of images captured so far (names the data URLs)
    last,              \* the handler that ran in the last step, with its arguments
    probe              \* the unit under test outside the App flow: a function's inputs
                       \* and outputs, or the state of a usePoseDetection hook

vars == <<appState, currentImageType, capturedImages, error, diagnosisResult,
          instances, runs, timers, nextUrl, last, probe>>

-----------------------------------------------------------------------------
(* Bounds of the model *)

MaxCaptures == 4
MaxRuns == 2
MaxTimers == 1

-----------------------------------------------------------------------------
(* Values *)

Scale == 1000

NEUTRAL == "neutral"
RIGHT_TILT == "right"
LEFT_TILT == "left"
ImageType == {NEUTRAL, RIGHT_TILT, LEFT_TILT}

Null == "null"

STIFF == "stiff"
SOMEWHAT_STIFF == "somewhat_stiff"
NORMAL == "normal"
FLEXIBLE == "flexible"
FlexibilityLevel == {STIFF, SOMEWHAT_STIFF, NORMAL, FLEXIBLE}

MILD == "mild"
MODERATE == "moderate"
SIGNIFICANT == "significant"
AsymmetryLevel == {NORMAL, MILD, MODERATE, SIGNIFICANT}

Abs(x) == IF x < 0 THEN -x ELSE x

MinOf(S) == CHOOSE x \in S : \A y \in S : x <= y

\* optional values: <<>> is undefined / null, <<v>> is the value v
None == <<>>
Some(v) == <<v>>

-----------------------------------------------------------------------------
(* The pose engine's answers.  A detected landmark list is named by the    *)
(* pose it shows; the two angle computations PoseAnalysis runs on it are   *)
(* tabulated per pose (fixed-point degrees).                               *)

\* a landmark list, as far as PoseAnalysis looks at it: the shoulder tilt and the
\* neck tilt the angle functions compute from it (neck = <<>>: the computation throws)
Pose(shoulder, neck) == [shoulder |-> shoulder, neck |-> neck]

Upright    == Pose(0, Some(0))
TiltR45    == Pose(0, Some(45 * Scale))
Shrug      == Pose(12 * Scale, Some(30 * Scale))
FaceHidden == Pose(0, None)

PoseSamples == {Upright, TiltR45, Shrug, FaceHidden}

\* what an analysis gets from image loading and processImage: the image failed to
\* load, null, an empty list, or a landmark list
LoadError == [kind |-> "loadError"]
NoPose == [kind |-> "null"]
EmptyList == [kind |-> "empty"]
Landmarks(p) == [kind |-> "landmarks", pose |-> p]
Detections == {LoadError, NoPose, EmptyList} \cup {Landmarks(p) : p \in PoseSamples}

\* calculateShoulderAngle(landmarks)
shoulderAngleOf(p) == p.shoulder

\* calculateNeckTiltAngle(landmarks); None when it throws
neckAngleOf(p) == p.neck

\* validationUtils.validateShoulderLevel(landmarks).isValid
validateShoulderLevel(landmarks) ==
    Abs(shoulderAngleOf(landmarks)) <= 10 * Scale

-----------------------------------------------------------------------------
(* angleUtils / validationUtils: the pure functions of the diagnosis *)

\* the difference kept with its sign
calculateLateralFlexionAngle_Signed(neutralAngle, tiltAngle) ==
    tiltAngle - neutralAngle

calculateLateralFlexionAngle(neutralAngle, tiltAngle) ==
    Abs(tiltAngle - neutralAngle)

\* evaluateFlexibility with the upper NORMAL bound exclusive: 50.0 classified FLEXIBLE
evaluateFlexibility_Exclusive50(angle) ==
    IF angle < 30 * Scale THEN STIFF
    ELSE IF angle < 40 * Scale THEN SOMEWHAT_STIFF
    ELSE IF angle < 50 * Scale THEN NORMAL
    ELSE FLEXIBLE

evaluateFlexibility(angle) ==
    IF angle < 30 * Scale THEN STIFF
    ELSE IF angle < 40 * Scale THEN SOMEWHAT_STIFF
    ELSE IF angle <= 50 * Scale THEN NORMAL
    ELSE FLEXIBLE

evaluateAsymmetryDiff(diff) ==
    IF diff < 5 * Scale THEN NORMAL
    ELSE IF diff < 10 * Scale THEN MILD
    ELSE IF diff < 15 * Scale THEN MODERATE
    ELSE SIGNIFICANT

evaluateAsymmetry(rightAngle, leftAngle) ==
    evaluateAsymmetryDiff(Abs(rightAngle - leftAngle))

\* The advisory messages of generateRecommendations, by the rule that emits them
\* and, for the two asymmetry messages, the side they name.
RightSide == "right"
LeftSide == "left"
SeekEvaluation(side)     == [rule |-> 1, side |-> side]
TargetedStretching(side) == [rule |-> 2, side |-> side]
MobilityRestricted       == [rule |-> 3, side |-> Null]
HabitualStretching       == [rule |-> 4, side |-> Null]
DeskPosture              == [rule |-> 5, side |-> Null]
MaintainMobility         == [rule |-> 6, side |-> Null]

\* the stiffer side is the one with the smaller flexion angle
stifferSide(rightAngle, leftAngle) ==
    IF rightAngle < leftAngle THEN RightSide ELSE LeftSide

\* generateRecommendations without the test for an empty list before the last push
generateRecommendations_AlwaysPositive(rightFlexibility, leftFlexibility, asymmetry, rightAngle, leftAngle) ==
    LET side == stifferSide(rightAngle, leftAngle)
        asym == IF asymmetry = SIGNIFICANT THEN << SeekEvaluation(side) >>
                ELSE IF asymmetry = MODERATE THEN << TargetedStretching(side) >>
                ELSE << >>
        flex == IF rightFlexibility = STIFF \/ leftFlexibility = STIFF
                THEN << MobilityRestricted >>
                ELSE IF rightFlexibility = SOMEWHAT_STIFF \/ leftFlexibility = SOMEWHAT_STIFF
                THEN << HabitualStretching >>
                ELSE << >>
        desk == IF rightFlexibility # FLEXIBLE /\ leftFlexibility # FLEXIBLE
                THEN << DeskPosture >> ELSE << >>
    IN  asym \o flex \o desk \o << MaintainMobility >>

\* generateRecommendations with rule 4 as an `if` of its own, not the else of rule 3
generateRecommendations_Rule4Independent(rightFlexibility, leftFlexibility, asymmetry, rightAngle, leftAngle) ==
    LET side == stifferSide(rightAngle, leftAngle)
        asym == IF asymmetry = SIGNIFICANT THEN << SeekEvaluation(side) >>
                ELSE IF asymmetry = MODERATE THEN << TargetedStretching(side) >>
                ELSE << >>
        stiff == IF rightFlexibility = STIFF \/ leftFlexibility = STIFF
                 THEN << MobilityRestricted >> ELSE << >>
        some == IF rightFlexibility = SOMEWHAT_STIFF \/ leftFlexibility = SOMEWHAT_STIFF
                THEN << HabitualStretching >> ELSE << >>
        desk == IF rightFlexibility # FLEXIBLE /\ leftFlexibility # FLEXIBLE
                THEN << DeskPosture >> ELSE << >>
        fired == asym \o stiff \o some \o desk
    IN  IF fired = << >> THEN << MaintainMobility >> ELSE fired

\* validationUtils.generateRecommendations: rules 1-6 in priority order
generateRecommendations(rightFlexibility, leftFlexibility, asymmetry, rightAngle, leftAngle) ==
    LET side == stifferSide(rightAngle, leftAngle)
        asym == IF asymmetry = SIGNIFICANT THEN << SeekEvaluation(side) >>
                ELSE IF asymmetry = MODERATE THEN << TargetedStretching(side) >>
                ELSE << >>
        flex == IF rightFlexibility = STIFF \/ leftFlexibility = STIFF
                THEN << MobilityRestricted >>
                ELSE IF rightFlexibility = SOMEWHAT_STIFF \/ leftFlexibility = SOMEWHAT_STIFF
                THEN << HabitualStretching >>
                ELSE << >>
        desk == IF rightFlexibility # FLEXIBLE /\ leftFlexibility # FLEXIBLE
                THEN << DeskPosture >> ELSE << >>
        fired == asym \o flex \o desk
    IN  IF fired = << >> THEN << MaintainMobility >> ELSE fired

-----------------------------------------------------------------------------
(* App.tsx: the handlers, as functions of the App state s they run on.     *)
(* A handler called back by PoseAnalysis reads currentImageType and        *)
(* capturedImages from the render that created it: the closure cl.         *)

AngleDataMissing == "angle data missing"
PoseNotDetected == "pose not detected"
ShoulderNotLevel == "shoulders not level"
NeckAngleFailed == "neck angle failed"
ImageLoadFailed == "image load failed"
ErrorMessages ==
    {AngleDataMissing, PoseNotDetected, ShoulderNotLevel, NeckAngleFailed, ImageLoadFailed}

\* images.find(img => img.type === t): <<>> when there is none
find(images, t) ==
    LET idx == {i \in 1..Len(images) : images[i].type = t}
    IN  IF idx = {} THEN None ELSE Some(images[MinOf(idx)])

\* prev.filter(img => img.type !== t)
filterOut(images, t) == SelectSeq(images, LAMBDA img : img.type # t)

\* !x?.angle : no entry, no angle, or an angle that is 0
angleFalsy(opt) ==
    \/ opt = None
    \/ opt[1].angle = None
    \/ opt[1].angle[1] = 0

\* !x?.landmarks
landmarksFalsy(opt) ==
    \/ opt = None
    \/ opt[1].landmarks = None

\* buildResult storing the signed difference instead of its absolute value
buildResult_SignedDiff(neutral, right, left) ==
    LET rightAngle == calculateLateralFlexionAngle(neutral.angle[1], right.angle[1])
        leftAngle  == calculateLateralFlexionAngle(neutral.angle[1], left.angle[1])
    IN  [ neutralAngle     |-> neutral.angle[1],
          rightAngle       |-> rightAngle,
          leftAngle        |-> leftAngle,
          rightFlexibility |-> evaluateFlexibility(rightAngle),
          leftFlexibility  |-> evaluateFlexibility(leftAngle),
          asymmetry        |-> evaluateAsymmetry(rightAngle, leftAngle),
          asymmetryDiff    |-> rightAngle - leftAngle,
          recommendations  |-> generateRecommendations(
                                   evaluateFlexibility(rightAngle),
                                   evaluateFlexibility(leftAngle),
                                   evaluateAsymmetry(rightAngle, leftAngle),
                                   rightAngle, leftAngle),
          neutralImage     |-> neutral,
          rightImage       |-> right,
          leftImage        |-> left ]

\* the DiagnosisResult built from the three entries (lines 87-134)
buildResult(neutral, right, left) ==
    LET rightAngle == calculateLateralFlexionAngle(neutral.angle[1], right.angle[1])
        leftAngle  == calculateLateralFlexionAngle(neutral.angle[1], left.angle[1])
    IN  [ neutralAngle     |-> neutral.angle[1],
          rightAngle       |-> rightAngle,
          leftAngle        |-> leftAngle,
          rightFlexibility |-> evaluateFlexibility(rightAngle),
          leftFlexibility  |-> evaluateFlexibility(leftAngle),
          asymmetry        |-> evaluateAsymmetry(rightAngle, leftAngle),
          asymmetryDiff    |-> Abs(rightAngle - leftAngle),
          recommendations  |-> generateRecommendations(
                                   evaluateFlexibility(rightAngle),
                                   evaluateFlexibility(leftAngle),
                                   evaluateAsymmetry(rightAngle, leftAngle),
                                   rightAngle, leftAngle),
          neutralImage     |-> neutral,
          rightImage       |-> right,
          leftImage        |-> left ]

\* the guard of calculateDiagnosis (lines 81-82)
diagnosisInputMissing(images) ==
    LET neutral == find(images, NEUTRAL)
        right   == find(images, RIGHT_TILT)
        left    == find(images, LEFT_TILT)
    IN  \/ angleFalsy(neutral) \/ angleFalsy(right) \/ angleFalsy(left)
        \/ landmarksFalsy(neutral) \/ landmarksFalsy(right) \/ landmarksFalsy(left)

\* calculateDiagnosis without the return after setError: the flow moves to 'result'
calculateDiagnosis_FallsThrough(s, images) ==
    IF diagnosisInputMissing(images)
    THEN [s EXCEPT !.error = AngleDataMissing, !.appState = "result"]
    ELSE [s EXCEPT !.diagnosisResult =
                        Some(buildResult(find(images, NEUTRAL)[1],
                                         find(images, RIGHT_TILT)[1],
                                         find(images, LEFT_TILT)[1])),
                   !.appState = "result"]

calculateDiagnosis(s, images) ==
    IF diagnosisInputMissing(images)
    THEN [s EXCEPT !.error = AngleDataMissing]
    ELSE [s EXCEPT !.diagnosisResult =
                        Some(buildResult(find(images, NEUTRAL)[1],
                                         find(images, RIGHT_TILT)[1],
                                         find(images, LEFT_TILT)[1])),
                   !.appState = "result"]

handleStartCapture(s) ==
    [s EXCEPT !.appState = "capture",
              !.currentImageType = NEUTRAL,
              !.capturedImages = <<>>,
              !.error = Null]

handleImageCaptured(s, dataUrl) ==
    [s EXCEPT !.capturedImages =
                  Append(@, [type |-> s.currentImageType, url |-> dataUrl,
                             landmarks |-> None, angle |-> None]),
              !.appState = "analyze"]

\* capturedImages.map(...) of handleAnalysisComplete (lines 45-49)
updateImages(cl, landmarks, angle) ==
    [i \in 1..Len(cl.capturedImages) |->
        IF cl.capturedImages[i].type = cl.currentImageType
        THEN [cl.capturedImages[i] EXCEPT !.landmarks = Some(landmarks), !.angle = Some(angle)]
        ELSE cl.capturedImages[i]]

handleAnalysisComplete(s, cl, landmarks, angle) ==
    LET updatedImages == updateImages(cl, landmarks, angle)
        s1 == [s EXCEPT !.capturedImages = updatedImages, !.error = Null]
    IN  IF cl.currentImageType = NEUTRAL
        THEN [s1 EXCEPT !.currentImageType = RIGHT_TILT, !.appState = "capture"]
        ELSE IF cl.currentImageType = RIGHT_TILT
        THEN [s1 EXCEPT !.currentImageType = LEFT_TILT, !.appState = "capture"]
        ELSE calculateDiagnosis(s1, updatedImages)

\* the synchronous part of handleAnalysisError; the timer is scheduled by the action
handleAnalysisError(s, errorMessage) ==
    [s EXCEPT !.error = errorMessage]

\* the setTimeout callback of handleAnalysisError, created with currentImageType = t
errorTimeout(s, t) ==
    [s EXCEPT !.capturedImages = filterOut(@, t),
              !.appState = "capture",
              !.error = Null]

\* handleReset without setCapturedImages([])
handleReset_KeepsImages(s) ==
    [s EXCEPT !.appState = "intro",
              !.error = Null,
              !.diagnosisResult = None,
              !.currentImageType = NEUTRAL]

handleReset(s) ==
    [s EXCEPT !.appState = "intro",
              !.capturedImages = <<>>,
              !.error = Null,
              !.diagnosisResult = None,
              !.currentImageType = NEUTRAL]

handleCancelCapture(s) ==
    LET s1 == [s EXCEPT !.capturedImages = filterOut(@, s.currentImageType)]
    IN  IF s.currentImageType = NEUTRAL
        THEN [s1 EXCEPT !.appState = "intro"]
        ELSE IF s.currentImageType = RIGHT_TILT
        THEN [s1 EXCEPT !.currentImageType = NEUTRAL, !.appState = "capture"]
        ELSE [s1 EXCEPT !.currentImageType = RIGHT_TILT, !.appState = "capture"]

\* capturedImages.filter(img => img.landmarks).length + 1
getProgress(images) ==
    Len(SelectSeq(images, LAMBDA img : img.landmarks # None)) + 1

-----------------------------------------------------------------------------
(* Bags of in-flight work *)

RECURSIVE SumCounts(_, _)
SumCounts(B, S) ==
    IF S = {} THEN 0
    ELSE LET x == CHOOSE y \in S : TRUE IN B[x] + SumCounts(B, S \ {x})

AddN(B, e, n) ==
    IF n = 0 THEN B
    ELSE [x \in DOMAIN B \cup {e} |->
            (IF x \in DOMAIN B THEN B[x] ELSE 0) + (IF x = e THEN n ELSE 0)]

Remove1(B, e) == B (-) SetToBag({e})

-----------------------------------------------------------------------------
(* PoseAnalysis: one component per entry of the current type while the App  *)
(* shows the analyze view (App.tsx lines 301-311), keyed by its position.   *)

App == [appState |-> appState, currentImageType |-> currentImageType,
        capturedImages |-> capturedImages, error |-> error,
        diagnosisResult |-> diagnosisResult]

\* capturedImages.filter(img => img.type === currentImageType), in the analyze view
analyzeProps(s) ==
    IF s.appState = "analyze"
    THEN SelectSeq(s.capturedImages, LAMBDA img : img.type = s.currentImageType)
    ELSE <<>>

\* a component at its first render: usePoseDetection is loading, nothing analysed
mountInstance(p) ==
    [url |-> p.url, imageType |-> p.type, isPoseLoading |-> TRUE,
     hasAnalyzed |-> FALSE, isAnalyzing |-> TRUE]

\* the guard of analyzeImage (lines 37-44): does the effect start an analysis?
effectStarts(i) == ~i.hasAnalyzed /\ ~i.isPoseLoading

\* a component after a render with props p: the analysis effect may start (and
\* then sets isAnalyzing), the second effect clears the flag when imageUrl changed
rerenderInstance(i, p) ==
    [i EXCEPT !.url = p.url,
              !.imageType = p.type,
              !.hasAnalyzed = IF p.url # i.url THEN FALSE ELSE i.hasAnalyzed,
              !.isAnalyzing = IF effectStarts(i) THEN TRUE ELSE i.isAnalyzing]

\* the analyzeImage invocation an effect of component k starts under App state s;
\* its callbacks are the handlers of that render
newRun(s, k, i, p) ==
    [inst |-> k, url |-> p.url, imageType |-> p.type,
     currentImageType |-> s.currentImageType, capturedImages |-> s.capturedImages]

\* setIsAnalyzing(true) on a component that was not analysing renders it once more,
\* and that render's effect starts a second invocation
runsStarted(i) ==
    IF effectStarts(i) THEN (IF i.isAnalyzing THEN 1 ELSE 2) ELSE 0

\* invocations of components that no longer exist keep running, detached (inst = 0)
detach(rs, n) ==
    LET f(r) == IF r.inst > n THEN [r EXCEPT !.inst = 0] ELSE r
        img  == {f(r) : r \in DOMAIN rs}
    IN  [y \in img |-> SumCounts(rs, {r \in DOMAIN rs : f(r) = y})]

RECURSIVE startRuns(_, _, _, _, _, _)
startRuns(s, insts, props, keys, rs, k) ==
    IF k > Len(props) THEN rs
    ELSE IF k <= Len(insts) /\ k \in keys
         THEN startRuns(s, insts, props, keys,
                        AddN(rs, newRun(s, k, insts[k], props[k]), runsStarted(insts[k])),
                        k + 1)
         ELSE startRuns(s, insts, props, keys, rs, k + 1)

\* React's commit after the App state became s: keys are the components rendered again
render(s, insts, rs, keys) ==
    LET props == analyzeProps(s)
    IN  [ instances |->
            [k \in 1..Len(props) |->
                IF k > Len(insts) THEN mountInstance(props[k])
                ELSE IF k \in keys THEN rerenderInstance(insts[k], props[k])
                ELSE insts[k]],
          runs |-> startRuns(s, insts, props, keys, detach(rs, Len(props)), 1) ]

AllKeys == 1..MaxCaptures

\* analyzeImage with the shoulder check applied to every capture type
analyzeImage_ChecksEveryType(imageType, detection) ==
    IF detection.kind = "loadError"
    THEN [call |-> "onError", message |-> ImageLoadFailed]
    ELSE IF detection.kind = "null" \/ detection.kind = "empty"
    THEN [call |-> "onError", message |-> PoseNotDetected]
    ELSE IF ~validateShoulderLevel(detection.pose)
    THEN [call |-> "onError", message |-> ShoulderNotLevel]
    ELSE IF neckAngleOf(detection.pose) = None
    THEN [call |-> "onError", message |-> NeckAngleFailed]
    ELSE [call |-> "onAnalysisComplete", landmarks |-> detection.pose,
          angle |-> neckAngleOf(detection.pose)[1]]

\* analyzeImage testing for null only: an empty list goes on to the angle computation,
\* which finds no landmark and throws
analyzeImage_NullOnly(imageType, detection) ==
    IF detection.kind = "loadError"
    THEN [call |-> "onError", message |-> ImageLoadFailed]
    ELSE IF detection.kind = "null"
    THEN [call |-> "onError", message |-> PoseNotDetected]
    ELSE IF detection.kind = "empty"
    THEN [call |-> "onError", message |-> NeckAngleFailed]
    ELSE IF imageType # NEUTRAL /\ ~validateShoulderLevel(detection.pose)
    THEN [call |-> "onError", message |-> ShoulderNotLevel]
    ELSE IF neckAngleOf(detection.pose) = None
    THEN [call |-> "onError", message |-> NeckAngleFailed]
    ELSE [call |-> "onAnalysisComplete", landmarks |-> detection.pose,
          angle |-> neckAngleOf(detection.pose)[1]]

\* PoseAnalysis.analyzeImage from the image load on: which callback it makes
analyzeImage(imageType, detection) ==
    IF detection.kind = "loadError"
    THEN [call |-> "onError", message |-> ImageLoadFailed]
    ELSE IF detection.kind = "null" \/ detection.kind = "empty"
    THEN [call |-> "onError", message |-> PoseNotDetected]
    ELSE IF imageType # NEUTRAL /\ ~validateShoulderLevel(detection.pose)
    THEN [call |-> "onError", message |-> ShoulderNotLevel]
    ELSE IF neckAngleOf(detection.pose) = None
    THEN [call |-> "onError", message |-> NeckAngleFailed]
    ELSE [call |-> "onAnalysisComplete", landmarks |-> detection.pose,
          angle |-> neckAngleOf(detection.pose)[1]]

-----------------------------------------------------------------------------
(* The state machine *)

\* op: the handler; type: the currentImageType it read; imageType and detection: the
\* analysis that called it; current: whether that analysis was the one on screen
NoDetection == [kind |-> "none"]
NoOp == [op |-> "init", type |-> Null, imageType |-> Null, detection |-> NoDetection,
         current |-> FALSE]

\* the App after its first render: the useState initial values
AppInit ==
    /\ appState = "intro"
    /\ currentImageType = NEUTRAL
    /\ capturedImages = <<>>
    /\ error = Null
    /\ diagnosisResult = None
    /\ instances = <<>>
    /\ runs = EmptyBag
    /\ timers = EmptyBag
    /\ nextUrl = 0
    /\ last = NoOp

Init == AppInit /\ probe = None

Commit(s, insts, rs, tm, keys, op) ==
    LET r == render(s, insts, rs, keys)
    IN  /\ BagCardinality(r.runs) <= MaxRuns
        /\ BagCardinality(tm) <= MaxTimers
        /\ appState' = s.appState
        /\ currentImageType' = s.currentImageType
        /\ capturedImages' = s.capturedImages
        /\ error' = s.error
        /\ diagnosisResult' = s.diagnosisResult
        /\ instances' = r.instances
        /\ runs' = r.runs
        /\ timers' = tm
        /\ last' = op
        /\ UNCHANGED probe

\* the start button of the intro view
ClickStart ==
    /\ appState = "intro"
    /\ Commit(handleStartCapture(App), instances, runs, timers, AllKeys,
              [NoOp EXCEPT !.op = "handleStartCapture"])
    /\ UNCHANGED nextUrl

\* ImageCapture.onCapture with a fresh data URL
Capture ==
    /\ appState = "capture"
    /\ nextUrl < MaxCaptures
    /\ nextUrl' = nextUrl + 1
    /\ Commit(handleImageCaptured(App, nextUrl + 1), instances, runs, timers, AllKeys,
              [NoOp EXCEPT !.op = "handleImageCaptured", !.type = currentImageType])

\* ImageCapture.onCancel
Cancel ==
    /\ appState = "capture"
    /\ Commit(handleCancelCapture(App), instances, runs, timers, AllKeys,
              [NoOp EXCEPT !.op = "handleCancelCapture", !.type = currentImageType])
    /\ UNCHANGED nextUrl

\* DiagnosisResult.onReset
Reset ==
    /\ appState = "result"
    /\ diagnosisResult # None
    /\ Commit(handleReset(App), instances, runs, timers, AllKeys,
              [NoOp EXCEPT !.op = "handleReset"])
    /\ UNCHANGED nextUrl

\* usePoseDetection finished initialising in component k
PoseLoaded(k) ==
    /\ k \in 1..Len(instances)
    /\ instances[k].isPoseLoading
    /\ Commit(App,
              [instances EXCEPT ![k].isPoseLoading = FALSE],
              runs, timers, {k},
              [NoOp EXCEPT !.op = "poseLoaded"])
    /\ UNCHANGED nextUrl

\* an analyzeImage invocation r finishes with the detector's answer
AnalyzeImageDone(r, detection) ==
    /\ r \in DOMAIN runs
    /\ LET res     == analyzeImage(r.imageType, detection)
           ok      == res.call = "onAnalysisComplete"
           mounted == r.inst > 0
           cl      == [currentImageType |-> r.currentImageType,
                       capturedImages |-> r.capturedImages]
           s       == IF ok THEN handleAnalysisComplete(App, cl, res.landmarks, res.angle)
                      ELSE handleAnalysisError(App, res.message)
           onScreen == mounted /\ appState = "analyze"
                          /\ r.currentImageType = currentImageType
           tm      == IF ok THEN timers
                      ELSE AddN(timers, [type |-> r.currentImageType,
                                         current |-> onScreen], 1)
           appChanged == ok \/ s.error # error
           insts   == IF mounted
                      THEN [instances EXCEPT ![r.inst].hasAnalyzed = (@ \/ ok),
                                             ![r.inst].isAnalyzing = FALSE]
                      ELSE instances
           keys    == IF appChanged THEN AllKeys
                      ELSE IF mounted /\ instances[r.inst].isAnalyzing THEN {r.inst}
                      ELSE {}
       IN  Commit(s, insts, Remove1(runs, r), tm, keys,
                  [op |-> IF ok THEN "handleAnalysisComplete" ELSE "handleAnalysisError",
                   type |-> r.currentImageType, imageType |-> r.imageType,
                   detection |-> detection, current |-> onScreen])
    /\ UNCHANGED nextUrl

\* a timer of handleAnalysisError fires; t.type is the currentImageType of the render
\* whose handler scheduled it, t.current records whether the failed analysis was the
\* one on screen
TimerFires(t) ==
    /\ t \in DOMAIN timers
    /\ Commit(errorTimeout(App, t.type), instances, runs, Remove1(timers, t), AllKeys,
              [NoOp EXCEPT !.op = "errorTimeout", !.type = t.type, !.current = t.current])
    /\ UNCHANGED nextUrl

RunRecords == DOMAIN runs
TimerRecords == DOMAIN timers

Next ==
    \/ ClickStart
    \/ Capture
    \/ Cancel
    \/ Reset
    \/ \E k \in 1..MaxCaptures : PoseLoaded(k)
    \/ \E r \in RunRecords, d \in Detections : AnalyzeImageDone(r, d)
    \/ \E t \in TimerRecords : TimerFires(t)

Spec == Init /\ [][Next]_vars

-----------------------------------------------------------------------------
(* The diagnosis as a function of the three measured angles: calculateDiagnosis *)
(* applied to one analysed entry per type, for angles on a grid that holds the  *)
(* classifier boundaries and their neighbours.                                  *)

appVars == <<appState, currentImageType, capturedImages, error, diagnosisResult,
             instances, runs, timers, nextUrl, last>>

NeutralGrid == {0, 2 * Scale, -3 * Scale}

FlexionGrid ==
    {0, 15 * Scale, 20 * Scale, 25 * Scale, 28 * Scale, 30 * Scale - 1, 30 * Scale,
     40 * Scale - 1, 40 * Scale, 45 * Scale, 50 * Scale, 50 * Scale + 1}

\* an analysed entry of type t with the given measured angle
measured(t, angle) ==
    [type |-> t, url |-> 0, landmarks |-> Some(Upright), angle |-> Some(angle)]

ProbeInputs ==
    {[neutral |-> n, right |-> n + r, left |-> n - l,
      done |-> FALSE, result |-> None, error |-> Null] :
        n \in NeutralGrid, r \in FlexionGrid, l \in FlexionGrid}

InitClassifier == AppInit /\ probe \in {Some(p) : p \in ProbeInputs}

\* calculateDiagnosis on the three entries; the result and the error are what it stores
Diagnose ==
    /\ probe # None
    /\ ~probe[1].done
    /\ LET images == << measured(NEUTRAL, probe[1].neutral),
                        measured(RIGHT_TILT, probe[1].right),
                        measured(LEFT_TILT, probe[1].left) >>
           s == calculateDiagnosis(App, images)
       IN  probe' = Some([probe[1] EXCEPT !.done = TRUE,
                                          !.result = s.diagnosisResult,
                                          !.error = s.error])
    /\ UNCHANGED appVars

NextClassifier == Diagnose

SpecClassifier == InitClassifier /\ [][NextClassifier]_vars

-----------------------------------------------------------------------------
(* The recommendation engine as a function of its five arguments: every      *)
(* combination of the three levels, with flexion angles on either side.      *)

RecommendAngles ==
    { <<28 * Scale, 45 * Scale>>, <<45 * Scale, 28 * Scale>>, <<35 * Scale, 35 * Scale>> }

RecommendInputs ==
    {[rightFlexibility |-> rf, leftFlexibility |-> lf, asymmetry |-> a,
      rightAngle |-> p[1], leftAngle |-> p[2], done |-> FALSE, recommendations |-> << >>] :
        rf \in FlexibilityLevel, lf \in FlexibilityLevel, a \in AsymmetryLevel,
        p \in RecommendAngles}

InitRecommend == AppInit /\ probe \in {Some(p) : p \in RecommendInputs}

Recommend ==
    /\ probe # None
    /\ ~probe[1].done
    /\ probe' = Some([probe[1] EXCEPT
                        !.done = TRUE,
                        !.recommendations =
                            generateRecommendations(probe[1].rightFlexibility,
                                                    probe[1].leftFlexibility,
                                                    probe[1].asymmetry,
                                                    probe[1].rightAngle,
                                                    probe[1].leftAngle)])
    /\ UNCHANGED appVars

NextRecommend == Recommend

SpecRecommend == InitRecommend /\ [][NextRecommend]_vars

-----------------------------------------------------------------------------
(* landmarkUtils / angleUtils: the landmark geometry.                        *)
(*                                                                           *)
(* A coordinate or a visibility is an integer number of 1/One: 1.0 is One.   *)
(* The inputs lie on the grid of tenths, for which every product with 0.7,   *)
(* 0.3, 0.15 and every halving below is an exact integer, so \div loses      *)
(* nothing. The z coordinate, which no angle reads, is left out.             *)

One == 4000
Tenths(k) == k * (One \div 10)

\* a Landmark; visibility is optional (<<>> is undefined)
PointZ(x, y, z, visibility) == [x |-> x, y |-> y, z |-> z, visibility |-> visibility]

\* a Landmark in the image plane (z = 0)
Point(x, y, visibility) == PointZ(x, y, 0, visibility)

\* the literal { x: 0, y: 0, z: 0 } of estimateAcromion's fallback
ZeroPoint == Point(0, 0, None)

NOSE == 0
LEFT_EYE_INNER == 1
RIGHT_EYE_INNER == 4
LEFT_EAR == 7
RIGHT_EAR == 8
MOUTH_LEFT == 9
MOUTH_RIGHT == 10
LEFT_SHOULDER == 11
RIGHT_SHOULDER == 12
LEFT_ELBOW == 13
RIGHT_ELBOW == 14

LandmarkIndices ==
    {NOSE, LEFT_EYE_INNER, RIGHT_EYE_INNER, LEFT_EAR, RIGHT_EAR, MOUTH_LEFT, MOUTH_RIGHT,
     LEFT_SHOULDER, RIGHT_SHOULDER, LEFT_ELBOW, RIGHT_ELBOW}

\* a landmark array with no entry at all, and one with some entries set
NoLandmarks == [i \in LandmarkIndices |-> None]
WithLandmarks(entries) ==
    [i \in LandmarkIndices |-> IF i \in DOMAIN entries THEN entries[i] ELSE None]

\* v || 1 on an optional visibility: undefined and 0 are both falsy
visibilityOr1(visibility) ==
    IF visibility = None \/ visibility[1] = 0 THEN One ELSE visibility[1]

\* estimateAcromion whose fallback is the zero point even when the shoulder is there
estimateAcromion_ZeroFallback(landmarks, side) ==
    LET ear      == landmarks[IF side = LeftSide THEN LEFT_EAR ELSE RIGHT_EAR]
        shoulder == landmarks[IF side = LeftSide THEN LEFT_SHOULDER ELSE RIGHT_SHOULDER]
        elbow    == landmarks[IF side = LeftSide THEN LEFT_ELBOW ELSE RIGHT_ELBOW]
    IN  IF ear = None \/ shoulder = None \/ elbow = None
        THEN ZeroPoint
        ELSE LET acromionX     == ear[1].x + ((shoulder[1].x - ear[1].x) * 7) \div 10
                 acromionY     == ear[1].y + ((shoulder[1].y - ear[1].y) * 7) \div 10
                 lateralOffset == (Abs(elbow[1].x - shoulder[1].x) * 15) \div 100
             IN  PointZ(IF side = LeftSide THEN acromionX - lateralOffset
                                            ELSE acromionX + lateralOffset,
                        acromionY, shoulder[1].z,
                        Some(MinOf({visibilityOr1(ear[1].visibility),
                                    visibilityOr1(shoulder[1].visibility)})))

estimateAcromion(landmarks, side) ==
    LET ear      == landmarks[IF side = LeftSide THEN LEFT_EAR ELSE RIGHT_EAR]
        shoulder == landmarks[IF side = LeftSide THEN LEFT_SHOULDER ELSE RIGHT_SHOULDER]
        elbow    == landmarks[IF side = LeftSide THEN LEFT_ELBOW ELSE RIGHT_ELBOW]
    IN  IF ear = None \/ shoulder = None \/ elbow = None
        THEN (IF shoulder # None THEN shoulder[1] ELSE ZeroPoint)
        ELSE LET earToShoulderX   == shoulder[1].x - ear[1].x
                 earToShoulderY   == shoulder[1].y - ear[1].y
                 acromionX        == ear[1].x + (earToShoulderX * 7) \div 10
                 acromionY        == ear[1].y + (earToShoulderY * 7) \div 10
                 shoulderToElbowX == elbow[1].x - shoulder[1].x
                 lateralOffset    == (Abs(shoulderToElbowX) * 15) \div 100
                 finalX           == IF side = LeftSide
                                     THEN acromionX - lateralOffset
                                     ELSE acromionX + lateralOffset
             IN  PointZ(finalX, acromionY, shoulder[1].z,
                        Some(MinOf({visibilityOr1(ear[1].visibility),
                                    visibilityOr1(shoulder[1].visibility)})))

\* estimateAcromion on one side's ear, shoulder and elbow: each missing or at one
\* of a few positions, ear and shoulder with every kind of visibility
Visibilities == {None, Some(0), Some(Tenths(3)), Some(Tenths(9)), Some(One)}

EarSamples ==
    {None} \cup {Some(Point(Tenths(5), Tenths(y), v)) : y \in {3, 4, 5}, v \in Visibilities}

ShoulderSamples ==
    {None} \cup {Some(PointZ(Tenths(p[1]), Tenths(p[2]), Tenths(p[3]), v)) :
                    p \in {<<6, 5, 0>>, <<4, 5, -2>>, <<6, 6, 1>>}, v \in Visibilities}

ElbowSamples ==
    {None} \cup {Some(Point(Tenths(x), Tenths(8), Some(One))) : x \in {0, 6, 10}}

sideLandmarks(side, ear, shoulder, elbow) ==
    IF side = LeftSide
    THEN WithLandmarks((LEFT_EAR :> ear) @@ (LEFT_SHOULDER :> shoulder) @@ (LEFT_ELBOW :> elbow))
    ELSE WithLandmarks((RIGHT_EAR :> ear) @@ (RIGHT_SHOULDER :> shoulder)
                       @@ (RIGHT_ELBOW :> elbow))

AcromionInputs ==
    {[side |-> side, ear |-> ear, shoulder |-> shoulder, elbow |-> elbow,
      done |-> FALSE, acromion |-> ZeroPoint] :
        side \in {LeftSide, RightSide}, ear \in EarSamples,
        shoulder \in ShoulderSamples, elbow \in ElbowSamples}

InitAcromion == AppInit /\ probe \in {Some(p) : p \in AcromionInputs}

EstimateAcromion ==
    /\ probe # None
    /\ ~probe[1].done
    /\ probe' = Some([probe[1] EXCEPT
                        !.done = TRUE,
                        !.acromion =
                            estimateAcromion(sideLandmarks(probe[1].side, probe[1].ear,
                                                           probe[1].shoulder, probe[1].elbow),
                                             probe[1].side)])
    /\ UNCHANGED appVars

NextAcromion == EstimateAcromion

SpecAcromion == InitAcromion /\ [][NextAcromion]_vars

\* stabilizeShoulders that puts both anchors on the mean: a blend of 100%
stabilizeShoulders_FullAverage(leftShoulder, rightShoulder) ==
    LET avgY == (leftShoulder.y + rightShoulder.y) \div 2
    IN  [left  |-> [leftShoulder  EXCEPT !.y = avgY],
         right |-> [rightShoulder EXCEPT !.y = avgY]]

\* stabilizeShoulders: each y moves 30% of the way to the mean of the two
stabilizeShoulders(leftShoulder, rightShoulder) ==
    LET avgY == (leftShoulder.y + rightShoulder.y) \div 2
    IN  [left  |-> [leftShoulder  EXCEPT !.y = (leftShoulder.y * 7) \div 10 + (avgY * 3) \div 10],
         right |-> [rightShoulder EXCEPT !.y = (rightShoulder.y * 7) \div 10 + (avgY * 3) \div 10]]

\* what a function of type number hands back: a finite number of milli-degrees,
\* NaN, or a thrown Error with its message
Number(degrees) == [kind |-> "number", degrees |-> degrees, message |-> Null]
NaN             == [kind |-> "NaN", degrees |-> 0, message |-> Null]
Throw(message)  == [kind |-> "throw", degrees |-> 0, message |-> message]

\* arctangent of n/d in milli-degrees for 0 <= n <= d, d > 0, by the quadratic
\* x * (45 + 15.642 * (1 - x)) on x = n/d taken to four decimals: exact at 0
\* and at 45 degrees, increasing in between, positive for n > 0, within 0.22
\* degrees of the arctangent
atanUnit(n, d) ==
    LET x == (n * 10000) \div d
    IN  (x * (45 * Scale + (15642 * (10000 - x)) \div 10000)) \div 10000

atanPos(n, d) == IF n <= d THEN atanUnit(n, d) ELSE 90 * Scale - atanUnit(d, n)

\* Math.atan(dy / dx) * (180 / Math.PI) for dx >= 0: dy / 0 is +Infinity or
\* -Infinity for dy # 0, whose arctangent is +90 or -90, and 0 / 0 is NaN
atanDegrees(dy, dx) ==
    IF dx = 0
    THEN (IF dy > 0 THEN Number(90 * Scale)
          ELSE IF dy < 0 THEN Number(-(90 * Scale))
          ELSE NaN)
    ELSE (IF dy >= 0 THEN Number(atanPos(dy, dx)) ELSE Number(-atanPos(-dy, dx)))

\* Math.atan2(y, x) * (180 / Math.PI); atan2(0, 0) is 0
atan2Degrees(y, x) ==
    IF x > 0 THEN atanDegrees(y, x).degrees
    ELSE IF x = 0 THEN (IF y > 0 THEN 90 * Scale ELSE IF y < 0 THEN -(90 * Scale) ELSE 0)
    ELSE IF y >= 0 THEN 180 * Scale - atanPos(y, -x)
    ELSE atanPos(-y, -x) - 180 * Scale

\* the swapped ratio: the angle from the vertical instead of from the horizontal
calculateShoulderAngle_FromVertical(landmarks) ==
    LET leftAcromion  == estimateAcromion(landmarks, LeftSide)
        rightAcromion == estimateAcromion(landmarks, RightSide)
        stabilized    == stabilizeShoulders(leftAcromion, rightAcromion)
        dx            == Abs(stabilized.left.x - stabilized.right.x)
        dy            == stabilized.left.y - stabilized.right.y
    IN  IF dx = 0 THEN NaN ELSE Number(90 * Scale - atanDegrees(Abs(dy), dx).degrees)

\* calculateShoulderAngle. estimateAcromion always hands back an object (the
\* shoulder, or the literal zero point), so the guard !leftAcromion ||
\* !rightAcromion of lines 33-35 is never taken and no path throws
calculateShoulderAngle(landmarks) ==
    LET leftAcromion  == estimateAcromion(landmarks, LeftSide)
        rightAcromion == estimateAcromion(landmarks, RightSide)
        stabilized    == stabilizeShoulders(leftAcromion, rightAcromion)
        dx            == Abs(stabilized.left.x - stabilized.right.x)
        dy            == stabilized.left.y - stabilized.right.y
    IN  atanDegrees(dy, dx)

\* calculateShoulderAngle on both sides' ear, shoulder and elbow, each missing or
\* present; the shoulders level or not, apart or on the same vertical
LeftEarSamples  == {None} \cup {Some(Point(Tenths(6), Tenths(y), Some(One))) : y \in {2, 3}}
RightEarSamples == {None} \cup {Some(Point(Tenths(4), Tenths(y), Some(One))) : y \in {2, 3}}

LeftShoulderSamples ==
    {None} \cup {Some(Point(Tenths(p[1]), Tenths(p[2]), Some(One))) :
                    p \in {<<7, 5>>, <<7, 6>>, <<5, 5>>, <<5, 6>>}}

RightShoulderSamples ==
    {None} \cup {Some(Point(Tenths(p[1]), Tenths(p[2]), Some(One))) :
                    p \in {<<3, 5>>, <<3, 6>>, <<5, 5>>, <<5, 6>>}}

LeftElbowSamples  == {None, Some(Point(Tenths(8), Tenths(8), Some(One)))}
RightElbowSamples == {None, Some(Point(Tenths(2), Tenths(8), Some(One)))}

ShoulderInputs ==
    {[landmarks |-> WithLandmarks((LEFT_EAR :> le) @@ (LEFT_SHOULDER :> ls)
                                  @@ (LEFT_ELBOW :> lb) @@ (RIGHT_EAR :> re)
                                  @@ (RIGHT_SHOULDER :> rs) @@ (RIGHT_ELBOW :> rb)),
      done |-> FALSE, angle |-> NaN] :
        le \in LeftEarSamples, ls \in LeftShoulderSamples, lb \in LeftElbowSamples,
        re \in RightEarSamples, rs \in RightShoulderSamples, rb \in RightElbowSamples}

InitShoulder == AppInit /\ probe \in {Some(p) : p \in ShoulderInputs}

CalculateShoulderAngle ==
    /\ probe # None
    /\ ~probe[1].done
    /\ probe' = Some([probe[1] EXCEPT !.done = TRUE,
                                      !.angle = calculateShoulderAngle(probe[1].landmarks)])
    /\ UNCHANGED appVars

NextShoulder == CalculateShoulderAngle

SpecShoulder == InitShoulder /\ [][NextShoulder]_vars

\* p && p.visibility && p.visibility > 0.5 on an optional landmark
usable(p) ==
    /\ p # None
    /\ p[1].visibility # None
    /\ p[1].visibility[1] # 0
    /\ 2 * p[1].visibility[1] > One

\* the midpoint of two landmarks, and a landmark itself, as a face centre point
midpoint(a, b) == [x |-> (a[1].x + b[1].x) \div 2, y |-> (a[1].y + b[1].y) \div 2]
pointOf(a)     == [x |-> a[1].x, y |-> a[1].y]

RECURSIVE sumX(_)
sumX(points) == IF points = <<>> THEN 0 ELSE Head(points).x + sumX(Tail(points))

RECURSIVE sumY(_)
sumY(points) == IF points = <<>> THEN 0 ELSE Head(points).y + sumY(Tail(points))

\* calculateNeckTiltAngle (the chest-centre variant). As in calculateShoulderAngle
\* the guard !leftAcromion || !rightAcromion of lines 93-95 is never taken. The
\* face centre is sum / length of the centre points; atan2 depends only on the
\* direction of (dx, dy), so both are kept multiplied by length > 0
calculateNeckTiltAngle(landmarks) ==
    LET leftAcromion  == estimateAcromion(landmarks, LeftSide)
        rightAcromion == estimateAcromion(landmarks, RightSide)
        leftEar       == landmarks[LEFT_EAR]
        rightEar      == landmarks[RIGHT_EAR]
        leftEyeInner  == landmarks[LEFT_EYE_INNER]
        rightEyeInner == landmarks[RIGHT_EYE_INNER]
        nose          == landmarks[NOSE]
        mouthLeft     == landmarks[MOUTH_LEFT]
        mouthRight    == landmarks[MOUTH_RIGHT]
        stabilized    == stabilizeShoulders(leftAcromion, rightAcromion)
        chestCenterX  == (stabilized.left.x + stabilized.right.x) \div 2
        chestCenterY  == (stabilized.left.y + stabilized.right.y) \div 2
        faceCenterPoints ==
            (IF usable(leftEar) /\ usable(rightEar)
             THEN <<midpoint(leftEar, rightEar)>> ELSE <<>>)
            \o (IF usable(leftEyeInner) /\ usable(rightEyeInner)
                THEN <<midpoint(leftEyeInner, rightEyeInner)>> ELSE <<>>)
            \o (IF usable(nose) THEN <<pointOf(nose)>> ELSE <<>>)
            \o (IF usable(mouthLeft) /\ usable(mouthRight)
                THEN <<midpoint(mouthLeft, mouthRight)>> ELSE <<>>)
        length        == Len(faceCenterPoints)
        dx            == sumX(faceCenterPoints) - length * chestCenterX
        dy            == length * chestCenterY - sumY(faceCenterPoints)
    IN  IF length = 0
        THEN Throw("no face landmark detected")
        ELSE Number(atan2Degrees(dx, dy))

\* calculateNeckTiltAngle on a frame: each shoulder absent, detected, or reported
\* with low visibility; the ears, eyes, nose and mouth detected or not
NeckLeftShoulders ==
    {None, Some(Point(Tenths(7), Tenths(6), Some(One))),
           Some(Point(Tenths(7), Tenths(6), Some(Tenths(2))))}

NeckRightShoulders ==
    {None, Some(Point(Tenths(3), Tenths(6), Some(One))),
           Some(Point(Tenths(3), Tenths(6), Some(Tenths(2))))}

NeckEarPairs ==
    {<<None, None>>,
     <<Some(Point(Tenths(6), Tenths(3), Some(One))), Some(Point(Tenths(4), Tenths(3), Some(One)))>>,
     <<Some(Point(Tenths(6), Tenths(3), Some(Tenths(3)))),
       Some(Point(Tenths(4), Tenths(3), Some(Tenths(3))))>>,
     <<Some(Point(Tenths(6), Tenths(3), Some(One))), None>>,
     <<Some(Point(Tenths(6), Tenths(3), None)), Some(Point(Tenths(4), Tenths(3), None))>>}

NeckElbowPairs ==
    {<<None, None>>,
     <<Some(Point(Tenths(8), Tenths(8), Some(One))), Some(Point(Tenths(2), Tenths(8), Some(One)))>>}

NeckNoses ==
    {None, Some(Point(Tenths(5), Tenths(3), Some(One))),
           Some(Point(Tenths(6), Tenths(3), Some(One))),
           Some(Point(Tenths(5), Tenths(3), Some(0)))}

NeckEyePairs ==
    {<<None, None>>,
     <<Some(Point(Tenths(5) + 200, Tenths(3), Some(One))),
       Some(Point(Tenths(5) - 200, Tenths(3), Some(One)))>>}

NeckMouthPairs ==
    {<<None, None>>,
     <<Some(Point(Tenths(5) + 200, Tenths(4), Some(One))),
       Some(Point(Tenths(5) - 200, Tenths(4), Some(One)))>>}

NeckInputs ==
    {[landmarks |-> WithLandmarks((LEFT_SHOULDER :> ls) @@ (RIGHT_SHOULDER :> rs)
                                  @@ (LEFT_EAR :> ears[1]) @@ (RIGHT_EAR :> ears[2])
                                  @@ (LEFT_ELBOW :> elbows[1]) @@ (RIGHT_ELBOW :> elbows[2])
                                  @@ (NOSE :> nose)
                                  @@ (LEFT_EYE_INNER :> eyes[1]) @@ (RIGHT_EYE_INNER :> eyes[2])
                                  @@ (MOUTH_LEFT :> mouth[1]) @@ (MOUTH_RIGHT :> mouth[2])),
      done |-> FALSE, tilt |-> NaN] :
        ls \in NeckLeftShoulders, rs \in NeckRightShoulders, ears \in NeckEarPairs,
        elbows \in NeckElbowPairs, nose \in NeckNoses, eyes \in NeckEyePairs,
        mouth \in NeckMouthPairs}

InitNeck == AppInit /\ probe \in {Some(p) : p \in NeckInputs}

CalculateNeckTiltAngle ==
    /\ probe # None
    /\ ~probe[1].done
    /\ probe' = Some([probe[1] EXCEPT !.done = TRUE,
                                      !.tilt = calculateNeckTiltAngle(probe[1].landmarks)])
    /\ UNCHANGED appVars

NextNeck == CalculateNeckTiltAngle

SpecNeck == InitNeck /\ [][NextNeck]_vars

\* calculateLateralFlexionAngle on pairs of signed angles, either order, equal or not
FlexionAngles == {a * Scale : a \in {-60, -45, -28, -10, -1, 0, 1, 10, 28, 45, 60}}

FlexionInputs ==
    {[neutralAngle |-> n, tiltAngle |-> t, done |-> FALSE, diff |-> 0] :
        n \in FlexionAngles, t \in FlexionAngles}

InitFlexion == AppInit /\ probe \in {Some(p) : p \in FlexionInputs}

CalculateLateralFlexionAngle ==
    /\ probe # None
    /\ ~probe[1].done
    /\ probe' = Some([probe[1] EXCEPT
                        !.done = TRUE,
                        !.diff = calculateLateralFlexionAngle(probe[1].neutralAngle,
                                                              probe[1].tiltAngle)])
    /\ UNCHANGED appVars

NextFlexion == CalculateLateralFlexionAngle

SpecFlexion == InitFlexion /\ [][NextFlexion]_vars

\* the values of one axis over the landmark sets, in ascending order
sortedAxis(landmarkSets, index, axis) ==
    SortSeq([i \in 1..Len(landmarkSets) |-> landmarkSets[i][index][1][axis]],
            LAMBDA a, b : a < b)

\* the middle value of an odd number of sorted values, the mean of the two
\* middle values of an even number
middleOf(values) ==
    LET mid == Len(values) \div 2
    IN  IF Len(values) % 2 = 0
        THEN (values[mid] + values[mid + 1]) \div 2
        ELSE values[mid + 1]

\* getMedianLandmark that takes the middle sample without sorting
getMedianLandmark_Unsorted(landmarkSets, index) ==
    LET axisOf(axis) == [i \in 1..Len(landmarkSets) |-> landmarkSets[i][index][1][axis]]
    IN  PointZ(middleOf(axisOf("x")), middleOf(axisOf("y")), middleOf(axisOf("z")),
               landmarkSets[1][index][1].visibility)

getMedianLandmark(landmarkSets, index) ==
    LET xValues == sortedAxis(landmarkSets, index, "x")
        yValues == sortedAxis(landmarkSets, index, "y")
        zValues == sortedAxis(landmarkSets, index, "z")
    IN  PointZ(middleOf(xValues), middleOf(yValues), middleOf(zValues),
               landmarkSets[1][index][1].visibility)

\* getMedianLandmark on 1 to MaxSamples detection passes over one image: each
\* pass puts the nose at one of a few points (one of them far off) and the left
\* ear next to it
MaxSamples == 4

NoseDetections ==
    {PointZ(Tenths(5), Tenths(3), 0, Some(Tenths(9))),
     PointZ(Tenths(5), Tenths(3), 0, None),
     PointZ(Tenths(5), Tenths(4), -Tenths(1), Some(Tenths(8))),
     PointZ(Tenths(6), Tenths(3), Tenths(1), Some(One)),
     PointZ(Tenths(9), Tenths(9), Tenths(5), Some(Tenths(2)))}

detectionPass(nose) ==
    WithLandmarks((NOSE :> Some(nose))
                  @@ (LEFT_EAR :> Some([nose EXCEPT !.x = nose.x + Tenths(1)])))

LandmarkSetSamples ==
    UNION {[1..n -> {detectionPass(nose) : nose \in NoseDetections}] : n \in 1..MaxSamples}

MedianInputs ==
    {[landmarkSets |-> sets, index |-> index, done |-> FALSE, median |-> ZeroPoint] :
        sets \in LandmarkSetSamples, index \in {NOSE, LEFT_EAR}}

InitMedian == AppInit /\ probe \in {Some(p) : p \in MedianInputs}

GetMedianLandmark ==
    /\ probe # None
    /\ ~probe[1].done
    /\ probe' = Some([probe[1] EXCEPT
                        !.done = TRUE,
                        !.median = getMedianLandmark(probe[1].landmarkSets, probe[1].index)])
    /\ UNCHANGED appVars

NextMedian == GetMedianLandmark

SpecMedian == InitMedian /\ [][NextMedian]_vars

\* stabilizeShoulders on two anchors, level or not, in or off the image plane,
\* with and without a visibility
LeftAnchorSamples ==
    {PointZ(Tenths(x), y, z, v) :
        x \in {6, 7}, y \in {Tenths(4), Tenths(5), Tenths(5) + 80, Tenths(6)},
        z \in {0, -Tenths(1)}, v \in {None, Some(0), Some(Tenths(9))}}

RightAnchorSamples ==
    {PointZ(Tenths(3), y, z, v) :
        y \in {Tenths(4), Tenths(5), Tenths(5) + 80, Tenths(6)},
        z \in {0, Tenths(2)}, v \in {None, Some(One)}}

StabilizeInputs ==
    {[leftShoulder |-> l, rightShoulder |-> r, done |-> FALSE,
      stabilized |-> [left |-> ZeroPoint, right |-> ZeroPoint]] :
        l \in LeftAnchorSamples, r \in RightAnchorSamples}

InitStabilize == AppInit /\ probe \in {Some(p) : p \in StabilizeInputs}

\* the call builds two new objects from spreads of its arguments and assigns to
\* neither argument: leftShoulder and rightShoulder are as they were
StabilizeShoulders ==
    /\ probe # None
    /\ ~probe[1].done
    /\ probe' = Some([probe[1] EXCEPT
                        !.done = TRUE,
                        !.stabilized = stabilizeShoulders(probe[1].leftShoulder,
                                                          probe[1].rightShoulder)])
    /\ UNCHANGED appVars

NextStabilize == StabilizeShoulders

SpecStabilize == InitStabilize /\ [][NextStabilize]_vars

-----------------------------------------------------------------------------
(* usePoseDetection: one hook instance, its pose state, its landmarksRef slot, *)
(* and the processImage calls running on it. The detector is the environment:  *)
(* for each image sent it may call onResults once, at any time after the send  *)
(* started, and pose.send resolves or rejects at any time.                     *)

MaxCalls == 2

maxWaitTime == 5000
checkInterval == 100

NotInitialized == "pose not initialized"
InitFailed     == "pose initialization failed"
SendFailed     == "image processing failed"

\* the images handed to processImage: with or without a person, above 1280 pixels or not
ImageSamples == [person : BOOLEAN, large : BOOLEAN]

\* the landmarks the detector produces for the image of call c
landmarksOf(c) == [call |-> c]

hook == probe[1]

setHook(h) == probe' = Some(h) /\ UNCHANGED appVars

InitPose ==
    /\ AppInit
    /\ probe = Some([pose |-> FALSE, isLoading |-> TRUE, error |-> Null,
                     landmarksRef |-> None, calls |-> <<>>])

\* initializePose: poseInstance.initialize() resolves, or throws
InitializePose ==
    /\ hook.isLoading
    /\ \/ setHook([hook EXCEPT !.pose = TRUE, !.error = Null, !.isLoading = FALSE])
       \/ setHook([hook EXCEPT !.error = InitFailed, !.isLoading = FALSE])

newCall(image, pc, sent, result) ==
    [image |-> image, pc |-> pc, sent |-> sent, delivered |-> FALSE,
     waited |-> 0, result |-> result]

\* processImage up to its first await
ProcessImage(image) ==
    /\ Len(hook.calls) < MaxCalls
    /\ IF ~hook.pose
       THEN setHook([hook EXCEPT
                        !.error = NotInitialized,
                        !.calls = Append(@, newCall(image, "returned", FALSE, None))])
       ELSE IF image.large
       THEN setHook([hook EXCEPT
                        !.landmarksRef = None,
                        !.calls = Append(@, newCall(image, "resizing", FALSE, None))])
       ELSE setHook([hook EXCEPT
                        !.landmarksRef = None,
                        !.calls = Append(@, newCall(image, "sending", TRUE, None))])

\* the resized image has loaded: pose.send is called
ResizeLoaded(c) ==
    /\ c \in DOMAIN hook.calls
    /\ hook.calls[c].pc = "resizing"
    /\ setHook([hook EXCEPT !.calls[c].pc = "sending", !.calls[c].sent = TRUE])

\* poseInstance.onResults for the image of call c
OnResults(c) ==
    /\ c \in DOMAIN hook.calls
    /\ hook.calls[c].sent
    /\ ~hook.calls[c].delivered
    /\ setHook([hook EXCEPT
                   !.calls[c].delivered = TRUE,
                   !.landmarksRef = IF hook.calls[c].image.person
                                    THEN Some(landmarksOf(c))
                                    ELSE None])

\* the loop with an inclusive bound: one wait more than maxWaitTime allows
checkLoop_OneMoreWait(h, c, waited) ==
    IF h.landmarksRef = None /\ waited <= maxWaitTime
    THEN [h EXCEPT !.calls[c].pc = "waiting", !.calls[c].waited = waited]
    ELSE [h EXCEPT !.calls[c].pc = "returned", !.calls[c].waited = waited,
                   !.calls[c].result = h.landmarksRef]

\* the test of the while loop and what follows it: wait another interval, or
\* return landmarksRef.current
checkLoop(h, c, waited) ==
    IF h.landmarksRef = None /\ waited < maxWaitTime
    THEN [h EXCEPT !.calls[c].pc = "waiting", !.calls[c].waited = waited]
    ELSE [h EXCEPT !.calls[c].pc = "returned", !.calls[c].waited = waited,
                   !.calls[c].result = h.landmarksRef]

\* await pose.send(...) resolves
SendResolves(c) ==
    /\ c \in DOMAIN hook.calls
    /\ hook.calls[c].pc = "sending"
    /\ setHook(checkLoop(hook, c, 0))

\* await pose.send(...) rejects: the catch block
SendRejects(c) ==
    /\ c \in DOMAIN hook.calls
    /\ hook.calls[c].pc = "sending"
    /\ setHook([hook EXCEPT !.error = SendFailed, !.calls[c].pc = "returned",
                            !.calls[c].result = None])

\* the setTimeout of the loop body fires: waited += checkInterval, then the test
PollTimerFires(c) ==
    /\ c \in DOMAIN hook.calls
    /\ hook.calls[c].pc = "waiting"
    /\ setHook(checkLoop(hook, c, hook.calls[c].waited + checkInterval))

NextPose ==
    \/ InitializePose
    \/ \E image \in ImageSamples : ProcessImage(image)
    \/ \E c \in 1..MaxCalls : ResizeLoaded(c)
    \/ \E c \in 1..MaxCalls : OnResults(c)
    \/ \E c \in 1..MaxCalls : SendResolves(c)
    \/ \E c \in 1..MaxCalls : SendRejects(c)
    \/ \E c \in 1..MaxCalls : PollTimerFires(c)

SpecPose == InitPose /\ [][NextPose]_vars

\* every pending await settles and every timer fires
FairPose ==
    /\ \A c \in 1..MaxCalls : WF_vars(ResizeLoaded(c))
    /\ \A c \in 1..MaxCalls : WF_vars(SendResolves(c) \/ SendRejects(c))
    /\ \A c \in 1..MaxCalls : WF_vars(PollTimerFires(c))

SpecPoseFair == SpecPose /\ FairPose

-----------------------------------------------------------------------------
(* Vocabulary of the properties *)

\* entry e carries a measurement: landmarks and an angle
Analysed(e) == e.landmarks # None /\ e.angle # None

\* images holds a measurement of capture type t
HasAnalysed(images, t) ==
    \E i \in 1..Len(images) : images[i].type = t /\ Analysed(images[i])

Complete(images) == \A t \in ImageType : HasAnalysed(images, t)

EntriesOf(images, t) == SelectSeq(images, LAMBDA img : img.type = t)

\* calculateDiagnosis ran in the step just taken (on capturedImages', which
\* handleAnalysisComplete stores in the same step)
DiagnosisRan == last'.op = "handleAnalysisComplete" /\ last'.type = LEFT_TILT

-----------------------------------------------------------------------------
(* C1 - a diagnosis is produced only from a complete set: whenever a step    *)
(* stores a diagnosisResult, the flow is in 'result' and capturedImages      *)
(* holds an analysed entry of each of the three types; and when              *)
(* calculateDiagnosis runs while a type has no analysed entry, it sets the   *)
(* incomplete-set error, stores no result and leaves appState unchanged.     *)
C1_DiagnosisNeedsCompleteSet ==
    [][ /\ (diagnosisResult' # diagnosisResult /\ diagnosisResult' # None)
              => (appState' = "result" /\ Complete(capturedImages'))
        /\ (DiagnosisRan /\ ~Complete(capturedImages'))
              => /\ error' = AngleDataMissing
                 /\ diagnosisResult' = diagnosisResult
                 /\ appState' = appState ]_vars

\* calculateDiagnosis has run on a set without a NEUTRAL measurement and refused it
C1_Witness_IncompleteRefused ==
    /\ last.op = "handleAnalysisComplete" /\ last.type = LEFT_TILT
    /\ ~HasAnalysed(capturedImages, NEUTRAL)
    /\ HasAnalysed(capturedImages, LEFT_TILT)
    /\ error = AngleDataMissing

\* a diagnosis has been produced
C1_Witness_Produced ==
    /\ last.op = "handleAnalysisComplete" /\ last.type = LEFT_TILT
    /\ appState = "result" /\ diagnosisResult # None

-----------------------------------------------------------------------------
(* C2 - completing the LEFT_TILT analysis with all three types analysed      *)
(* always produces the diagnosis, also when measured angles are exactly 0.   *)
C2_CompleteSetIsDiagnosed ==
    [][ (DiagnosisRan /\ Complete(capturedImages'))
            => (appState' = "result" /\ diagnosisResult' # None) ]_vars

-----------------------------------------------------------------------------
(* C3 - capturedImages holds at most one entry per capture type.             *)
C3_OneEntryPerType ==
    \A t \in ImageType : Len(EntriesOf(capturedImages, t)) <= 1

-----------------------------------------------------------------------------
(* C4 - captures are measured in the order NEUTRAL, RIGHT_TILT, LEFT_TILT:   *)
(* while the current type is RIGHT_TILT a NEUTRAL measurement exists, while  *)
(* it is LEFT_TILT NEUTRAL and RIGHT_TILT measurements exist, and a stored   *)
(* diagnosis was computed from a NEUTRAL measurement.                        *)
C4_CaptureOrder ==
    /\ currentImageType = RIGHT_TILT => HasAnalysed(capturedImages, NEUTRAL)
    /\ currentImageType = LEFT_TILT =>
          HasAnalysed(capturedImages, NEUTRAL) /\ HasAnalysed(capturedImages, RIGHT_TILT)
    /\ diagnosisResult # None =>
          diagnosisResult[1].neutralImage.type = NEUTRAL
          /\ Analysed(diagnosisResult[1].neutralImage)

-----------------------------------------------------------------------------
-----------------------------------------------------------------------------
(* C6 - when the analysis of the capture on screen (type T) failed, the      *)
(* timer that fires after the error delay removes the entries of type T,     *)
(* leaves the other entries unchanged, clears the error and puts the flow in *)
(* 'capture' with currentImageType still T.                                  *)
C6_ErrorRetakesSamePose ==
    [][ (last'.op = "errorTimeout" /\ last'.current) =>
            /\ capturedImages' = filterOut(capturedImages, last'.type)
            /\ error' = Null
            /\ appState' = "capture"
            /\ currentImageType' = last'.type ]_vars

-----------------------------------------------------------------------------
(* C7 - the shoulder-level check applies to RIGHT_TILT and LEFT_TILT only:   *)
(* a tilt capture whose shoulders are not level is reported through onError  *)
(* with the validation message and records nothing; a NEUTRAL capture is     *)
(* never rejected with the shoulder message.                                 *)
AnalysisStep == last'.op \in {"handleAnalysisComplete", "handleAnalysisError"}

ShoulderCheckFails(d) == d.kind = "landmarks" /\ ~validateShoulderLevel(d.pose)

C7_ShoulderCheckOnTiltOnly ==
    [][ AnalysisStep =>
          /\ (last'.imageType # NEUTRAL /\ ShoulderCheckFails(last'.detection)) =>
                /\ last'.op = "handleAnalysisError"
                /\ error' = ShoulderNotLevel
                /\ capturedImages' = capturedImages
                /\ diagnosisResult' = diagnosisResult
          /\ (last'.imageType = NEUTRAL /\ last'.op = "handleAnalysisError") =>
                error' # ShoulderNotLevel ]_vars

\* a tilt capture has been rejected for its shoulders
C7_Witness_TiltRejected ==
    /\ last.op = "handleAnalysisError" /\ last.imageType = RIGHT_TILT
    /\ ShoulderCheckFails(last.detection)
    /\ error = ShoulderNotLevel

\* a NEUTRAL capture with tilted shoulders has been measured
C7_Witness_NeutralAccepted ==
    /\ last.op = "handleAnalysisComplete" /\ last.imageType = NEUTRAL
    /\ ShoulderCheckFails(last.detection)
    /\ HasAnalysed(capturedImages, NEUTRAL)

-----------------------------------------------------------------------------
(* C8 - when the pose engine yields no landmarks (null or an empty list),    *)
(* the analysis calls onError, never onAnalysisComplete: no landmarks and    *)
(* no angle are recorded.                                                    *)
C8_NoLandmarksIsAnError ==
    [][ (AnalysisStep /\ last'.detection.kind \in {"null", "empty"}) =>
            /\ last'.op = "handleAnalysisError"
            /\ error' = PoseNotDetected
            /\ capturedImages' = capturedImages
            /\ diagnosisResult' = diagnosisResult
            /\ currentImageType' = currentImageType ]_vars

\* an analysis has ended on an empty landmark list
C8_Witness_EmptyList ==
    /\ last.op = "handleAnalysisError" /\ last.detection.kind = "empty"
    /\ error = PoseNotDetected
    /\ \E i \in 1..Len(capturedImages) : ~Analysed(capturedImages[i])

-----------------------------------------------------------------------------
(* C9 - the flexibility classification assigns exactly one level to every    *)
(* lateral-flexion angle: STIFF below 30, SOMEWHAT_STIFF from 30 to below    *)
(* 40, NORMAL from 40 to 50 inclusive, FLEXIBLE above 50 (29.999 STIFF,      *)
(* 30.0 SOMEWHAT_STIFF, 50.0 NORMAL, 50.001 FLEXIBLE).                       *)
FlexibilityTable(angle, level) ==
    /\ level \in FlexibilityLevel
    /\ level = STIFF <=> angle < 30 * Scale
    /\ level = SOMEWHAT_STIFF <=> (30 * Scale <= angle /\ angle < 40 * Scale)
    /\ level = NORMAL <=> (40 * Scale <= angle /\ angle <= 50 * Scale)
    /\ level = FLEXIBLE <=> angle > 50 * Scale

Diagnosed == probe # None /\ probe[1].result # None

C9_Witness_LowerBoundaries ==
    /\ Diagnosed
    /\ probe[1].result[1].rightAngle = 30 * Scale - 1
    /\ probe[1].result[1].rightFlexibility = STIFF
    /\ probe[1].result[1].leftAngle = 30 * Scale
    /\ probe[1].result[1].leftFlexibility = SOMEWHAT_STIFF

-----------------------------------------------------------------------------
(* C10 - the asymmetry classification assigns exactly one level to           *)
(* diff = |rightFlexion - leftFlexion|: NORMAL below 5, MILD from 5 to below *)
(* 10, MODERATE from 10 to below 15, SIGNIFICANT from 15 on; the level       *)
(* stored in a diagnosis is the classification of the asymmetryDiff stored   *)
(* in the same diagnosis.                                                    *)
AsymmetryTable(diff, level) ==
    /\ level \in AsymmetryLevel
    /\ level = NORMAL <=> diff < 5 * Scale
    /\ level = MILD <=> (5 * Scale <= diff /\ diff < 10 * Scale)
    /\ level = MODERATE <=> (10 * Scale <= diff /\ diff < 15 * Scale)
    /\ level = SIGNIFICANT <=> diff >= 15 * Scale

-----------------------------------------------------------------------------
(* C11 - for every combination of the two flexibility levels, the asymmetry  *)
(* level and the flexion angles, the recommendation list is non-empty, its   *)
(* messages come in rule-priority order, it holds at most one asymmetry      *)
(* message (rule 1 or rule 2, never both), and the 'maintain current         *)
(* mobility' message (rule 6) appears only as the single entry of the list.  *)
RulesOf(recommendations) ==
    {recommendations[i].rule : i \in 1..Len(recommendations)}

Recommended == probe # None /\ probe[1].done

C11_RecommendationListShape ==
    Recommended =>
        LET recs == probe[1].recommendations
        IN  /\ Len(recs) >= 1
            /\ \A i \in 1..Len(recs) : recs[i].rule \in 1..6
            /\ \A i, j \in 1..Len(recs) : i < j => recs[i].rule < recs[j].rule
            /\ ~({1, 2} \subseteq RulesOf(recs))
            /\ 6 \in RulesOf(recs) => recs = << MaintainMobility >>
            /\ ~(6 \in RulesOf(recs)) =>
                   /\ 1 \in RulesOf(recs) <=> probe[1].asymmetry = SIGNIFICANT
                   /\ 2 \in RulesOf(recs) <=> probe[1].asymmetry = MODERATE

\* an asymmetry message followed by two more messages, in priority order
C11_Witness_ThreeRules ==
    /\ Recommended
    /\ probe[1].asymmetry = MODERATE
    /\ Len(probe[1].recommendations) = 3
    /\ probe[1].recommendations[1].rule = 2
    /\ probe[1].recommendations[3] = DeskPosture

\* no rule of 1-5 fired: the positive message stands alone
C11_Witness_PositiveOnly ==
    /\ Recommended
    /\ probe[1].rightFlexibility = FLEXIBLE
    /\ probe[1].recommendations = << MaintainMobility >>

-----------------------------------------------------------------------------
-----------------------------------------------------------------------------
(* C13 - when the asymmetry is SIGNIFICANT the first recommendation names    *)
(* the side with the smaller flexion angle as the stiffer side; for neutral  *)
(* 0.0, right tilt 45.0 and left tilt -28.0 the diagnosis is rightFlexion    *)
(* 45.0 (NORMAL), leftFlexion 28.0 (STIFF), asymmetryDiff 17.0 (SIGNIFICANT) *)
(* and its recommendations begin with the left-side-stiffer message.         *)
DiagnoseRan == probe # None /\ probe[1].done

\* the general rule, on every diagnosis that was produced
C13_SignificantNamesStifferSide ==
    (Diagnosed /\ probe[1].result[1].asymmetry = SIGNIFICANT) =>
        LET d == probe[1].result[1]
        IN  d.recommendations[1] =
                SeekEvaluation(IF d.rightAngle < d.leftAngle THEN RightSide ELSE LeftSide)

ScenarioA ==
    /\ probe[1].neutral = 0
    /\ probe[1].right = 45 * Scale
    /\ probe[1].left = -28 * Scale

C13_ScenarioA ==
    /\ C13_SignificantNamesStifferSide
    /\ (DiagnoseRan /\ ScenarioA) =>
          /\ probe[1].result # None
          /\ LET d == probe[1].result[1]
             IN  /\ d.rightAngle = 45 * Scale /\ d.rightFlexibility = NORMAL
                 /\ d.leftAngle = 28 * Scale /\ d.leftFlexibility = STIFF
                 /\ d.asymmetryDiff = 17 * Scale /\ d.asymmetry = SIGNIFICANT
                 /\ d.recommendations[1] = SeekEvaluation(LeftSide)

-----------------------------------------------------------------------------
(* C17 - the anchor estimateAcromion derives from an ear, a shoulder and an  *)
(* elbow has visibility min(ear.visibility, shoulder.visibility), for every  *)
(* pair of visibilities in [0,1], 0 included; it is never higher than the    *)
(* lower of the two.                                                         *)
AcromionDerived ==
    /\ probe # None /\ probe[1].done
    /\ probe[1].ear # None /\ probe[1].shoulder # None /\ probe[1].elbow # None

C17_AcromionVisibilityIsMin ==
    ( /\ AcromionDerived
      /\ probe[1].ear[1].visibility # None
      /\ probe[1].shoulder[1].visibility # None )
        => probe[1].acromion.visibility =
               Some(MinOf({probe[1].ear[1].visibility[1],
                           probe[1].shoulder[1].visibility[1]}))

-----------------------------------------------------------------------------
(* C18 - for every ear, shoulder and elbow with ear different from shoulder, *)
(* the orthogonal projection of the anchor onto the line through ear and     *)
(* shoulder lies strictly between the two: the projection parameter          *)
(* ((A - E) . (S - E)) / |S - E|^2 is strictly between 0 and 1.              *)
C18_ProjectionInsideSegment ==
    ( /\ AcromionDerived
      /\ <<probe[1].ear[1].x, probe[1].ear[1].y>>
            # <<probe[1].shoulder[1].x, probe[1].shoulder[1].y>> )
        => LET E   == probe[1].ear[1]
               S   == probe[1].shoulder[1]
               A   == probe[1].acromion
               dot == (A.x - E.x) * (S.x - E.x) + (A.y - E.y) * (S.y - E.y)
               len == (S.x - E.x) * (S.x - E.x) + (S.y - E.y) * (S.y - E.y)
           IN  0 < dot /\ dot < len

(***************************************************************************)
(* The two anchors calculateShoulderAngle works on, before and after the    *)
(* bilateral blend, for the landmarks of the probe.                         *)
(***************************************************************************)
ShoulderAngleRan == probe # None /\ probe[1].done

anchors ==
    [left  |-> estimateAcromion(probe[1].landmarks, LeftSide),
     right |-> estimateAcromion(probe[1].landmarks, RightSide)]

stabilizedAnchors == stabilizeShoulders(anchors.left, anchors.right)

AllSixDetected ==
    \A i \in {LEFT_EAR, LEFT_SHOULDER, LEFT_ELBOW, RIGHT_EAR, RIGHT_SHOULDER, RIGHT_ELBOW} :
        probe[1].landmarks[i] # None

(***************************************************************************)
(* C14 - calculateShoulderAngle signals a computation failure whenever the  *)
(* two stabilized anchors have the same x (dx = 0): for such an input it    *)
(* returns no number, neither 0 nor +90 nor -90 nor NaN.                    *)
(***************************************************************************)
C14_VerticalAnchorsFail ==
    (ShoulderAngleRan /\ stabilizedAnchors.left.x = stabilizedAnchors.right.x)
        => probe[1].angle.kind = "throw"

(***************************************************************************)
(* C15 - calculateNeckTiltAngle signals a missing-landmark failure whenever *)
(* the chest reference or the head reference cannot be derived from         *)
(* detected keypoints: when a shoulder keypoint is absent, or when no face  *)
(* keypoint is usable, it returns no angle.                                 *)
(***************************************************************************)
NeckTiltRan == probe # None /\ probe[1].done

FaceIndices ==
    {NOSE, LEFT_EYE_INNER, RIGHT_EYE_INNER, LEFT_EAR, RIGHT_EAR, MOUTH_LEFT, MOUTH_RIGHT}

C15_MissingReferenceFails ==
    (NeckTiltRan /\ (\/ probe[1].landmarks[LEFT_SHOULDER] = None
                     \/ probe[1].landmarks[RIGHT_SHOULDER] = None
                     \/ \A i \in FaceIndices : ~usable(probe[1].landmarks[i])))
        => probe[1].tilt.kind = "throw"

(***************************************************************************)
(* C16 - for anchors with dx > 0 the result of calculateShoulderAngle is    *)
(* positive exactly when the right anchor is lower in the image than the    *)
(* left one (right.y > left.y), negative exactly when the left anchor is    *)
(* lower, and 0 exactly when the two are level.                             *)
(***************************************************************************)
C16_PositiveWhenRightLower ==
    (ShoulderAngleRan /\ anchors.left.x # anchors.right.x)
        => /\ probe[1].angle.kind = "number"
           /\ (probe[1].angle.degrees > 0) <=> (anchors.right.y > anchors.left.y)
           /\ (probe[1].angle.degrees < 0) <=> (anchors.left.y > anchors.right.y)
           /\ (probe[1].angle.degrees = 0) <=> (anchors.left.y = anchors.right.y)

(***************************************************************************)
(* C19 - for two anchors with equal y and different x the shoulder-tilt     *)
(* angle is exactly 0, whatever the x separation, and the 30% bilateral     *)
(* blend leaves the equal y values equal.                                   *)
(***************************************************************************)
C19_LevelAnchorsGiveZero ==
    (ShoulderAngleRan /\ anchors.left.y = anchors.right.y
                      /\ anchors.left.x # anchors.right.x)
        => /\ stabilizedAnchors.left.y = stabilizedAnchors.right.y
           /\ probe[1].angle = Number(0)

\* level anchors derived from six detected keypoints, the angle computed
C19_Witness_LevelDerivedAnchors ==
    /\ ShoulderAngleRan
    /\ AllSixDetected
    /\ anchors.left.y = anchors.right.y
    /\ anchors.left.x - anchors.right.x > Tenths(1)
    /\ probe[1].angle = Number(0)

\* level anchors a narrow distance apart: one side fell back to its shoulder keypoint
C19_Witness_NarrowSeparation ==
    /\ ShoulderAngleRan
    /\ anchors.left.y = anchors.right.y
    /\ anchors.left.x # anchors.right.x
    /\ Abs(anchors.left.x - anchors.right.x) < Tenths(1)
    /\ probe[1].angle = Number(0)

(***************************************************************************)
(* C20 - calculateLateralFlexionAngle(neutral, tilt) is |tilt - neutral|    *)
(* for every pair of angles: the distance between the two, never negative,  *)
(* and 0 exactly when tilt = neutral.                                       *)
(***************************************************************************)
FlexionRan == probe # None /\ probe[1].done

C20_FlexionIsDistance ==
    FlexionRan =>
        LET neutral == probe[1].neutralAngle
            tilt    == probe[1].tiltAngle
            diff    == probe[1].diff
        IN  /\ diff >= 0
            /\ (tilt >= neutral) => diff = tilt - neutral
            /\ (tilt < neutral) => diff = neutral - tilt
            /\ (diff = 0) <=> (tilt = neutral)

\* a tilt below the neutral angle: the difference is negative, the result is not
C20_Witness_TiltBelowNeutral ==
    /\ FlexionRan
    /\ probe[1].tiltAngle < probe[1].neutralAngle
    /\ probe[1].diff = probe[1].neutralAngle - probe[1].tiltAngle
    /\ probe[1].diff > 0

\* tilt equal to a non-zero neutral angle: the result is 0
C20_Witness_TiltEqualsNeutral ==
    /\ FlexionRan
    /\ probe[1].tiltAngle = probe[1].neutralAngle
    /\ probe[1].neutralAngle # 0
    /\ probe[1].diff = 0

(***************************************************************************)
(* C21 - estimateAcromion is total and degrades instead of failing: when    *)
(* the ear, the shoulder or the elbow of the requested side is missing it   *)
(* returns the raw shoulder keypoint unchanged, or the zero point (x = 0,   *)
(* y = 0, z = 0) when the shoulder is missing too; every call returns a     *)
(* landmark.                                                                *)
(***************************************************************************)
AcromionRan == probe # None /\ probe[1].done

C21_AcromionFallback ==
    AcromionRan =>
        /\ DOMAIN probe[1].acromion = {"x", "y", "z", "visibility"}
        /\ (probe[1].ear = None \/ probe[1].shoulder = None \/ probe[1].elbow = None)
            => IF probe[1].shoulder # None
               THEN probe[1].acromion = probe[1].shoulder[1]
               ELSE /\ probe[1].acromion.x = 0
                    /\ probe[1].acromion.y = 0
                    /\ probe[1].acromion.z = 0

\* the ear is missing and the shoulder, off the image plane, comes back as it is
C21_Witness_RawShoulder ==
    /\ AcromionRan
    /\ probe[1].ear = None
    /\ probe[1].shoulder # None
    /\ probe[1].elbow # None
    /\ probe[1].shoulder[1].z # 0
    /\ probe[1].acromion = probe[1].shoulder[1]

\* the shoulder is missing: the zero point comes back
C21_Witness_ZeroPoint ==
    /\ AcromionRan
    /\ probe[1].shoulder = None
    /\ probe[1].ear # None
    /\ probe[1].acromion = ZeroPoint

(***************************************************************************)
(* C22 - the head reference of calculateNeckTiltAngle is the equal-weight   *)
(* mean of exactly those sub-points (ear midpoint, eye midpoint, nose,      *)
(* mouth midpoint) whose contributing keypoints all have visibility > 0.5;  *)
(* when no sub-point qualifies, the nose keypoint alone is the head         *)
(* reference and an angle is still returned.                                *)
(***************************************************************************)
visibleEnough(p) == p # None /\ p[1].visibility # None /\ 2 * p[1].visibility[1] > One

qualifyingSubPoints ==
    LET l == probe[1].landmarks
    IN  (IF visibleEnough(l[LEFT_EAR]) /\ visibleEnough(l[RIGHT_EAR])
         THEN <<midpoint(l[LEFT_EAR], l[RIGHT_EAR])>> ELSE <<>>)
        \o (IF visibleEnough(l[LEFT_EYE_INNER]) /\ visibleEnough(l[RIGHT_EYE_INNER])
            THEN <<midpoint(l[LEFT_EYE_INNER], l[RIGHT_EYE_INNER])>> ELSE <<>>)
        \o (IF visibleEnough(l[NOSE]) THEN <<pointOf(l[NOSE])>> ELSE <<>>)
        \o (IF visibleEnough(l[MOUTH_LEFT]) /\ visibleEnough(l[MOUTH_RIGHT])
            THEN <<midpoint(l[MOUTH_LEFT], l[MOUTH_RIGHT])>> ELSE <<>>)

\* the angle from the chest centre to the mean of the given points
tiltToMeanOf(points) ==
    LET chestCenterX == (stabilizedAnchors.left.x + stabilizedAnchors.right.x) \div 2
        chestCenterY == (stabilizedAnchors.left.y + stabilizedAnchors.right.y) \div 2
    IN  atan2Degrees(sumX(points) - Len(points) * chestCenterX,
                     Len(points) * chestCenterY - sumY(points))

C22_HeadReferenceWithNoseFallback ==
    NeckTiltRan =>
        /\ (qualifyingSubPoints # <<>>)
            => probe[1].tilt = Number(tiltToMeanOf(qualifyingSubPoints))
        /\ (qualifyingSubPoints = <<>> /\ probe[1].landmarks[NOSE] # None)
            => probe[1].tilt = Number(tiltToMeanOf(<<pointOf(probe[1].landmarks[NOSE])>>))

(***************************************************************************)
(* C23 - getMedianLandmark returns, for each axis x, y and z on its own,    *)
(* the median of the N samples' values at the given index (the middle value *)
(* for odd N, the mean of the two middle values for even N) and the first   *)
(* sample's visibility; with N >= 3 samples of which all but one agree on   *)
(* an axis, the result on that axis is the agreed value.                    *)
(***************************************************************************)
MedianRan == probe # None /\ probe[1].done

sampleValues(axis) ==
    [i \in 1..Len(probe[1].landmarkSets) |->
        probe[1].landmarkSets[i][probe[1].index][1][axis]]

\* v is the k-th smallest of the values: fewer than k are below it, at least k not above
isKthSmallest(v, k, values) ==
    /\ \E i \in DOMAIN values : values[i] = v
    /\ Cardinality({i \in DOMAIN values : values[i] < v}) < k
    /\ Cardinality({i \in DOMAIN values : values[i] <= v}) >= k

isMedianOf(m, values) ==
    LET n == Len(values)
    IN  IF n % 2 = 1
        THEN isKthSmallest(m, (n + 1) \div 2, values)
        ELSE \E i, j \in DOMAIN values :
                /\ isKthSmallest(values[i], n \div 2, values)
                /\ isKthSmallest(values[j], n \div 2 + 1, values)
                /\ 2 * m = values[i] + values[j]

allButOneAgree(values, v) ==
    Cardinality({i \in DOMAIN values : values[i] # v}) = 1

C23_MedianPerAxis ==
    MedianRan =>
        /\ \A axis \in {"x", "y", "z"} :
            /\ isMedianOf(probe[1].median[axis], sampleValues(axis))
            /\ \A i \in DOMAIN sampleValues(axis) :
                (Len(sampleValues(axis)) >= 3 /\ allButOneAgree(sampleValues(axis), sampleValues(axis)[i]))
                    => probe[1].median[axis] = sampleValues(axis)[i]
        /\ probe[1].median.visibility
               = probe[1].landmarkSets[1][probe[1].index][1].visibility

\* three passes, the second one far off on every axis: the result is the agreed point
C23_Witness_OutlierRejected ==
    /\ MedianRan
    /\ Len(probe[1].landmarkSets) = 3
    /\ \A axis \in {"x", "y", "z"} :
        /\ sampleValues(axis)[1] = sampleValues(axis)[3]
        /\ sampleValues(axis)[2] > sampleValues(axis)[1]
        /\ probe[1].median[axis] = sampleValues(axis)[1]

\* four passes with two different middle values on x: their mean is returned
C23_Witness_EvenMean ==
    /\ MedianRan
    /\ Len(probe[1].landmarkSets) = 4
    /\ \A i \in 1..4 : probe[1].median.x # sampleValues("x")[i]

(***************************************************************************)
(* C24 - stabilizeShoulders changes only the y of each anchor: each output  *)
(* y is y + 0.3 * (avgY - y) with avgY the mean of the two input y, that    *)
(* is (17 * y + 3 * other y) / 20; x, z and visibility of both anchors come *)
(* back unchanged, and the call leaves its two arguments as they were.      *)
(***************************************************************************)
C24_OnlyYBlended ==
    [][(probe # None /\ ~probe[1].done /\ probe'[1].done)
        => LET l   == probe[1].leftShoulder
               r   == probe[1].rightShoulder
               out == probe'[1].stabilized
           IN  /\ 20 * out.left.y = 17 * l.y + 3 * r.y
               /\ 20 * out.right.y = 17 * r.y + 3 * l.y
               /\ out.left.x = l.x /\ out.left.z = l.z
               /\ out.left.visibility = l.visibility
               /\ out.right.x = r.x /\ out.right.z = r.z
               /\ out.right.visibility = r.visibility
               /\ probe'[1].leftShoulder = l
               /\ probe'[1].rightShoulder = r]_vars

\* two anchors at different heights, off the image plane, one without visibility:
\* both y moved towards each other, the rest as it was
C24_Witness_UnevenAnchors ==
    /\ probe # None /\ probe[1].done
    /\ probe[1].leftShoulder.y > probe[1].rightShoulder.y
    /\ probe[1].leftShoulder.z # 0
    /\ probe[1].rightShoulder.visibility = None
    /\ probe[1].stabilized.left.y < probe[1].leftShoulder.y
    /\ probe[1].stabilized.right.y > probe[1].rightShoulder.y
    /\ probe[1].stabilized.left.z = probe[1].leftShoulder.z

(***************************************************************************)
(* C26 - processImage always returns. With the pose instance not            *)
(* initialised it sets the error and returns null without sending the       *)
(* image. Otherwise, after pose.send resolves, it polls the result slot at  *)
(* most 50 times, 100 ms apart (5 s in total), returns the landmarks as     *)
(* soon as the slot holds them, and returns null when the slot stayed empty *)
(* for the whole wait.                                                      *)
(***************************************************************************)
callStep(c) ==
    IF c \notin DOMAIN hook.calls
    THEN \* the call starts in this step
         ~hook.pose =>
            /\ probe'[1].calls[c].pc = "returned"
            /\ probe'[1].calls[c].result = None
            /\ ~probe'[1].calls[c].sent
            /\ probe'[1].error = NotInitialized
    ELSE LET before == hook.calls[c]
             after  == probe'[1].calls[c]
         IN  /\ after.waited <= maxWaitTime
             /\ after.waited \div checkInterval <= 50
             /\ (before.pc = "sending" /\ after.pc = "waiting")
                    => hook.landmarksRef = None /\ after.waited = 0
             /\ (before.pc = "sending" /\ after.pc = "returned")
                    => after.result = None \/ after.result = hook.landmarksRef
             /\ (before.pc = "waiting" /\ after.pc = "waiting" /\ after.waited # before.waited)
                    => /\ hook.landmarksRef = None
                       /\ after.waited = before.waited + checkInterval
             /\ (before.pc = "waiting" /\ after.pc = "returned")
                    => /\ after.result = hook.landmarksRef
                       /\ after.waited = before.waited + checkInterval
                       /\ (after.result = None) => after.waited = maxWaitTime
             /\ (before.pc = "returned")
                    => /\ after.pc = "returned"
                       /\ after.result = before.result
                       /\ after.waited = before.waited

C26_Witness_ReturnedAfterWait ==
    \E c \in DOMAIN hook.calls :
        /\ hook.calls[c].pc = "returned"
        /\ hook.calls[c].waited > 0
        /\ hook.calls[c].waited < maxWaitTime
        /\ hook.calls[c].result = Some(landmarksOf(c))

\* a call on a hook whose pose instance is not there: null, nothing sent
C26_Witness_NotInitialized ==
    \E c \in DOMAIN hook.calls :
        /\ ~hook.pose
        /\ hook.calls[c].pc = "returned"
        /\ ~hook.calls[c].sent
        /\ hook.error = NotInitialized

(***************************************************************************)
(* C28 - processImage returns only landmarks that the detector produced     *)
(* for the image of that call: a result callback that belongs to another    *)
(* call on the same hook (an earlier one whose wait timed out, or one       *)
(* running at the same time) is never returned as the result of this call.  *)
(***************************************************************************)
C28_ResultIsOfOwnImage ==
    \A c \in DOMAIN hook.calls :
        (hook.calls[c].pc = "returned" /\ hook.calls[c].result # None)
            => hook.calls[c].result = Some(landmarksOf(c))

(***************************************************************************)
(* C25 - for one captured image PoseAnalysis reports completion at most     *)
(* once: a further run of the analysis effect for the same image issues no  *)
(* second onAnalysisComplete, so handleAnalysisComplete runs only for the   *)
(* analysis on screen - the component is mounted, the App is in 'analyze',  *)
(* and the currentImageType its handler closed over is still the current    *)
(* one - and never with the state of an earlier render after the flow has   *)
(* moved on.                                                                *)
(***************************************************************************)
C25_CompletionOnlyFromCurrentRun ==
    (last.op = "handleAnalysisComplete") => last.current

(***************************************************************************)
(* C27 - an error-recovery timer of handleAnalysisError acts only on the    *)
(* capture attempt that failed: when it fires after the flow has moved on   *)
(* (the App is no longer analysing a capture of the timer's type) it        *)
(* deletes no capture and leaves appState where the flow has got to.        *)
(***************************************************************************)
C27_StaleTimerChangesNothing ==
    [][(last'.op = "errorTimeout"
            /\ ~(appState = "analyze" /\ currentImageType = last'.type))
        => (capturedImages' = capturedImages /\ appState' = appState)]_vars

(***************************************************************************)
(* C29 - in every reachable 'capture' or 'analyze' state the progress step  *)
(* shown by getProgressText, the number of analysed entries plus 1, is      *)
(* between 1 and 3 and is the position of currentImageType in the order     *)
(* NEUTRAL = 1, RIGHT_TILT = 2, LEFT_TILT = 3, after cancel and             *)
(* error-retake steps too.                                                  *)
(***************************************************************************)
positionOf(type) == IF type = NEUTRAL THEN 1 ELSE IF type = RIGHT_TILT THEN 2 ELSE 3

C29_ProgressIsPosition ==
    (appState \in {"capture", "analyze"})
        => /\ getProgress(capturedImages) \in 1..3
           /\ getProgress(capturedImages) = positionOf(currentImageType)

(***************************************************************************)
(* C30 - every analysis eventually leaves the 'analyze' state: after        *)
(* PoseAnalysis has called onAnalysisComplete or onError the flow reaches   *)
(* 'capture' or 'result'. There is no reachable state in which appState is  *)
(* 'analyze' with no analysis running or about to start, no timer pending   *)
(* and no user action available.                                            *)
(***************************************************************************)
nothingPending ==
    /\ runs = EmptyBag
    /\ timers = EmptyBag
    /\ \A k \in 1..Len(instances) : ~instances[k].isPoseLoading

C30_NoDeadEndInAnalyze ==
    ~(appState = "analyze" /\ nothingPending)

====
